---- MODULE Spec2Model ----
(***************************************************************************)
(* Model of start_esp/fetch_service_config.py: the paginated rollout scan  *)
(* (fetch_latest_rollout), the config fetch (fetch_service_json) and the   *)
(* validator (validate_service_config).                                    *)
(*                                                                         *)
(* JSON values are modelled with an explicit presence marker: a key that   *)
(* is not in a dict is Missing, a JSON null (Python None) is None.  An     *)
(* uncaught Python exception (KeyError, ValueError) is an outcome of its   *)
(* own kind, distinct from the structured FetchError.                      *)
(***************************************************************************)
EXTENDS Integers, Sequences, FiniteSets

VARIABLES pc, feed, service_name, page_token, requests, result,
          service_config, calls

vars == <<pc, feed, service_name, page_token, requests, result,
          service_config, calls>>

(* ------------------------------ bounds -------------------------------- *)

\* longest scripted feed of rollout pages
MaxPages == 2

\* most calls of validate_service_config on one document
MaxCalls == 2

(* --------------------------- JSON encodings --------------------------- *)

\* a key that is absent from a dict
Missing == "<missing>"

\* JSON null / Python None
None == "<none>"

\* a percentages map, version id -> percent, as a set of pairs
PercentagesA == {<<"v1", 100>>}
PercentagesB == {<<"v1", 50>>, <<"v2", 50>>}

NoPercentages == [kind |-> "missing", entries |-> {}]
NullPercentages == [kind |-> "null", entries |-> {}]
PercentagesOf(m) == [kind |-> "map", entries |-> m]

NullStrategy == [kind |-> "null", percentages |-> NoPercentages]
StrategyOf(p) == [kind |-> "object", percentages |-> p]

Rollout(st, tps) == [status |-> st, trafficPercentStrategy |-> tps]

\* the rollout records the feed is built from
Rollouts ==
    { Rollout("FAILED", StrategyOf(PercentagesOf(PercentagesA))),
      Rollout("SUCCESS", NullStrategy),
      Rollout("SUCCESS", StrategyOf(NullPercentages)),
      Rollout("SUCCESS", StrategyOf(PercentagesOf({}))),
      Rollout("SUCCESS", StrategyOf(PercentagesOf(PercentagesA))),
      Rollout("SUCCESS", StrategyOf(PercentagesOf(PercentagesB))),
      Rollout(Missing, StrategyOf(PercentagesOf(PercentagesA))),
      Rollout("SUCCESS", StrategyOf(NoPercentages)) }

\* the record lists of a page: empty, one record, two records
RolloutLists ==
    {<< >>} \cup {<<r>> : r \in Rollouts} \cup {<<r, s>> : r, s \in Rollouts}

NoConfig ==
    [name |-> Missing, id |-> Missing, title |-> Missing,
     control |-> [kind |-> "missing", environment |-> Missing,
                  provider |-> Missing]]

\* a response body: malformed JSON, or a JSON object
MalformedBody ==
    [kind |-> "malformed", rollouts |-> [kind |-> "missing", items |-> << >>],
     nextPageToken |-> Missing, config |-> NoConfig]

RolloutsBody(rs, tok) ==
    [kind |-> "object", rollouts |-> rs, nextPageToken |-> tok,
     config |-> NoConfig]

ConfigBody(c) ==
    [kind |-> "object", rollouts |-> [kind |-> "missing", items |-> << >>],
     nextPageToken |-> Missing, config |-> c]

\* urllib3.response.reason for a status
Reason(status) ==
    IF status = 200 THEN "OK"
    ELSE IF status = 404 THEN "Not Found"
    ELSE "Service Unavailable"

\* client.request raised
TransportError ==
    [transport |-> "error", status |-> 0, reason |-> "", data |-> MalformedBody]

HttpResponse(status, body) ==
    [transport |-> "ok", status |-> status, reason |-> Reason(status),
     data |-> body]

ErrorStatuses == {404, 503}

FailedResponses ==
    {TransportError} \cup {HttpResponse(s, MalformedBody) : s \in ErrorStatuses}

(* ------------------------- outcomes of a call ------------------------- *)

NoMessage ==
    [text |-> "", status |-> 0, reason |-> "", url |-> << >>,
     data |-> MalformedBody, value |-> ""]

\* the result record of a call; kind is "none" before the call ends,
\* "continue" inside the pagination loop, "return" for a normal return,
\* "FetchError" for the structured error and the exception's name otherwise
NoResult ==
    [kind |-> "none", code |-> 0, message |-> NoMessage, value |-> {},
     next |-> Missing]

Return(v) == [NoResult EXCEPT !.kind = "return", !.value = v]

Continue(tok) == [NoResult EXCEPT !.kind = "continue", !.next = tok]

\* an exception other than FetchError leaving the function
Uncaught(exc) == [NoResult EXCEPT !.kind = exc]

FetchError(code, message) ==
    [NoResult EXCEPT !.kind = "FetchError", !.code = code, !.message = message]

(* ------------------------ fetch_latest_rollout ------------------------ *)

SERVICE_MGMT_ROLLOUTS_URL_TEMPLATE ==
    "https://servicemanagement.googleapis.com/v1/services/{}/rollouts?pageToken={}"

\* SERVICE_MGMT_ROLLOUTS_URL_TEMPLATE.format(service_name, page_token)
RolloutsUrl(name, token) == <<SERVICE_MGMT_ROLLOUTS_URL_TEMPLATE, name, token>>

FailedToFetch ==
    [NoMessage EXCEPT !.text = "Failed to fetch service config"]

\* a message formatted without its URL
FetchingRolloutsFailedNoUrl(status_code, reason, url) ==
    [NoMessage EXCEPT
        !.text = "Fetching rollouts failed (status code {}, reason {})",
        !.status = status_code, !.reason = reason]

FetchingRolloutsFailed(status_code, reason, url) ==
    [NoMessage EXCEPT
        !.text = "Fetching rollouts failed (status code {}, reason {}, url {})",
        !.status = status_code, !.reason = reason, !.url = url]

InvalidRolloutsResponse(url, data) ==
    [NoMessage EXCEPT !.text = "Invalid rollouts response (url {}, data {})",
                      !.url = url, !.data = data]

\* the condition of the scan on one record, evaluated left to right as
\* Python does: "match", "skip", or the KeyError of a missing key
RolloutMatch(rollout) ==
    IF rollout.status = Missing THEN "KeyError"
    ELSE IF rollout.status = None THEN "skip"
    ELSE IF rollout.status # "SUCCESS" THEN "skip"
    ELSE IF rollout.trafficPercentStrategy.kind = "missing" THEN "KeyError"
    ELSE IF rollout.trafficPercentStrategy.kind = "null" THEN "skip"
    ELSE IF rollout.trafficPercentStrategy.percentages.kind = "missing"
         THEN "KeyError"
    ELSE IF rollout.trafficPercentStrategy.percentages.kind = "null"
         THEN "skip"
    ELSE "match"

\* the for loop over rollouts["rollouts"], from record i on
RECURSIVE ScanRollouts(_, _)
ScanRollouts(items, i) ==
    IF i > Len(items) THEN NoResult
    ELSE LET m == RolloutMatch(items[i]) IN
         IF m = "match"
         THEN Return(items[i].trafficPercentStrategy.percentages.entries)
         ELSE IF m = "KeyError" THEN Uncaught("KeyError")
         ELSE ScanRollouts(items, i + 1)

\* one pass of the while loop, after client.request answered `response`
RolloutPage(response, service_mgmt_url) ==
    IF response.transport = "error" THEN FetchError(1, FailedToFetch)
    ELSE IF response.status # 200
    THEN FetchError(1, FetchingRolloutsFailed(response.status, response.reason,
                                              service_mgmt_url))
    ELSE IF response.data.kind = "malformed" THEN Uncaught("ValueError")
    ELSE IF response.data.rollouts.kind = "missing" THEN Uncaught("KeyError")
    ELSE IF response.data.rollouts.kind = "null"
    THEN FetchError(1, InvalidRolloutsResponse(service_mgmt_url, response.data))
    ELSE LET scan == ScanRollouts(response.data.rollouts.items, 1) IN
         IF scan.kind # "none" THEN scan
         ELSE IF response.data.nextPageToken = Missing
         THEN Uncaught("KeyError")
         ELSE IF response.data.nextPageToken = None
         THEN FetchError(1, FetchingRolloutsFailed(response.status,
                                                   response.reason,
                                                   service_mgmt_url))
         ELSE Continue(response.data.nextPageToken)

(* ----------------------- the scripted transport ----------------------- *)

RolloutsList(items) == [kind |-> "list", items |-> items]

\* a page that is followed by another one: a 200 page with a continuation
\* token, or a failure the client is expected to stop at
InnerPages ==
    {HttpResponse(200, RolloutsBody(RolloutsList(l), t)) :
        l \in RolloutLists, t \in {"t1", "t2"}}
    \cup FailedResponses
    \cup {HttpResponse(200, MalformedBody)}

\* the last page of a feed: no continuation token
LastPages ==
    {HttpResponse(200, RolloutsBody(RolloutsList(l), t)) :
        l \in RolloutLists, t \in {Missing, None}}
    \cup {HttpResponse(200, RolloutsBody([kind |-> k, items |-> << >>], None)) :
            k \in {"missing", "null"}}
    \cup FailedResponses
    \cup {HttpResponse(200, MalformedBody)}

ServiceNames == {"svc"}

(* ------------------------- fetch_service_json ------------------------- *)

FetchingServiceConfigFailed(status_code, reason, url) ==
    [NoMessage EXCEPT
        !.text = "Fetching service config failed (status code {}, reason {}, url {})",
        !.status = status_code, !.reason = reason, !.url = url]

\* the whole of fetch_service_json, after client.request answered `response`
ServiceJson(response, service_mgmt_url) ==
    IF response.transport = "error" THEN FetchError(1, FailedToFetch)
    ELSE IF response.status # 200
    THEN FetchError(1, FetchingServiceConfigFailed(response.status,
                                                   response.reason,
                                                   service_mgmt_url))
    ELSE IF response.data.kind = "malformed" THEN Uncaught("ValueError")
    ELSE Return({})

SANDBOX_ENVIRONMENT == "endpoints-servicecontrol.sandbox.googleapis.com"

PRODUCTION_ENVIRONMENT == "servicecontrol.googleapis.com"

ControlOf(env, prov) ==
    [kind |-> "object", environment |-> env, provider |-> prov]

\* the control sections of a document: no key, null, or a mapping with or
\* without an environment and with or without another key
Controls ==
    {[kind |-> k, environment |-> Missing, provider |-> Missing] :
        k \in {"missing", "null"}}
    \cup {ControlOf(env, prov) :
            env \in {Missing, None, "", SANDBOX_ENVIRONMENT,
                     PRODUCTION_ENVIRONMENT, "other.example.com"},
            prov \in {Missing, "p"}}

\* the service config documents the server may answer with
ServiceConfigs ==
    [name : {Missing, None, "", "a", "b"},
     id : {Missing, None, "", "v1", "v2"},
     title : {Missing, "t"},
     control : Controls]

ConfigUrls == {<<"https://servicemanagement.googleapis.com/v1/services/a/configs/v1">>,
               <<"https://servicemanagement.googleapis.com/v1/services/b/configs/v2">>}

ConfigResponses ==
    FailedResponses
    \cup {HttpResponse(200, MalformedBody)}
    \cup {HttpResponse(200, ConfigBody(c)) : c \in ServiceConfigs}

(* ---------------------- validate_service_config ----------------------- *)

\* dict.get(key, None)
Get(v) == IF v = Missing THEN None ELSE v

\* Python's `not s` for None or a string
NotStr(s) == s \in {None, ""}

\* a validator that tests `control is None`
NotControlNoneOnly(control) == control.kind \in {"missing", "null"}

\* Python's `not control` for control = service_config.get("control", None):
\* None, or a mapping without any key
NotControl(control) ==
    \/ control.kind \in {"missing", "null"}
    \/ /\ control.environment = Missing
       /\ control.provider = Missing

ValidationError(text, value) ==
    FetchError(2, [NoMessage EXCEPT !.text = text, !.value = value])

\* the checks of validate_service_config, in the order of the code
Validation(config, expected_service_name, expected_service_version) ==
    LET service_name_ == Get(config.name)
        service_version == Get(config.id)
        environment == Get(config.control.environment)
    IN  IF NotStr(service_name_)
        THEN ValidationError("No service name in the service config", "")
        ELSE IF service_name_ # expected_service_name
        THEN ValidationError("Unexpected service name in service config: {}",
                             service_name_)
        ELSE IF NotStr(service_version)
        THEN ValidationError("No service config ID in the service config", "")
        ELSE IF service_version # expected_service_version
        THEN ValidationError("Unexpected service config ID in service config: {}",
                             service_version)
        ELSE IF NotControl(config.control)
        THEN ValidationError("No control section in the service config", "")
        ELSE IF NotStr(environment)
        THEN ValidationError("Missing control environment", "")
        ELSE Return({})

\* a workaround that never rewrites
ReplaceNothing(environment) == environment

\* a workaround that also maps the production name back
ReplaceBothWays(environment) ==
    IF environment = SANDBOX_ENVIRONMENT THEN PRODUCTION_ENVIRONMENT
    ELSE IF environment = PRODUCTION_ENVIRONMENT THEN SANDBOX_ENVIRONMENT
    ELSE environment

\* the sandbox migration workaround on control.environment
ReplaceSandbox(environment) ==
    IF environment = SANDBOX_ENVIRONMENT
    THEN PRODUCTION_ENVIRONMENT
    ELSE environment

\* a validator that rewrites the environment before it checks anything
ValidatedBeforeChecks(config, expected_service_name, expected_service_version) ==
    [config EXCEPT
        !.control.environment =
            IF config.control.environment = SANDBOX_ENVIRONMENT
            THEN PRODUCTION_ENVIRONMENT
            ELSE config.control.environment]

\* the document validate_service_config leaves behind
Validated(config, expected_service_name, expected_service_version) ==
    IF Validation(config, expected_service_name,
                  expected_service_version).kind = "return"
    THEN [config EXCEPT
            !.control.environment = ReplaceSandbox(config.control.environment)]
    ELSE config

ExpectedNames == {"a", "b"}

ExpectedVersions == {"v1", "v2"}

(* ------------------------------ actions ------------------------------- *)

Init ==
    /\ pc = "idle"
    /\ feed = << >>
    /\ service_name = ""
    /\ page_token = ""
    /\ requests = << >>
    /\ result = NoResult
    /\ service_config = NoConfig
    /\ calls = << >>

\* fetch_latest_rollout is called against a scripted feed of at most MaxPages
\* pages, the last one without continuation token: page_token = ""
CallFetchLatestRollout ==
    /\ pc = "idle"
    /\ \E k \in 1..MaxPages, n \in ServiceNames :
        \E f \in [1..(k - 1) -> InnerPages], l \in LastPages :
            /\ feed' = Append(f, l)
            /\ service_name' = n
    /\ page_token' = ""
    /\ pc' = "fetch_latest_rollout"
    /\ UNCHANGED <<requests, result, service_config, calls>>

\* one pass of the while loop: request, checks, scan, continuation
FetchRolloutPage ==
    /\ pc = "fetch_latest_rollout"
    /\ Len(requests) < Len(feed)
    /\ LET service_mgmt_url == RolloutsUrl(service_name, page_token)
           response == feed[Len(requests) + 1]
           out == RolloutPage(response, service_mgmt_url)
       IN /\ requests' = Append(requests, service_mgmt_url)
          /\ IF out.kind = "continue"
             THEN /\ page_token' = out.next
                  /\ UNCHANGED <<pc, result>>
             ELSE /\ result' = out
                  /\ pc' = "rollout_done"
                  /\ UNCHANGED page_token
    /\ UNCHANGED <<feed, service_name, service_config, calls>>

\* the whole of fetch_service_json: one request, its checks, json.loads
FetchServiceJson ==
    /\ pc = "idle"
    /\ \E service_mgmt_url \in ConfigUrls, response \in ConfigResponses :
        LET out == ServiceJson(response, service_mgmt_url)
        IN /\ requests' = <<service_mgmt_url>>
           /\ feed' = <<response>>
           /\ result' = out
           /\ service_config' =
                IF out.kind = "return" THEN response.data.config ELSE NoConfig
    /\ pc' = "json_done"
    /\ UNCHANGED <<service_name, page_token, calls>>

\* the whole of validate_service_config on the fetched document
ValidateServiceConfig ==
    /\ pc = "json_done"
    /\ result.kind = "return"
    /\ Len(calls) < MaxCalls
    /\ \E expected_service_name \in ExpectedNames,
          expected_service_version \in ExpectedVersions :
        LET out == Validation(service_config, expected_service_name,
                              expected_service_version)
            after == Validated(service_config, expected_service_name,
                               expected_service_version)
        IN /\ calls' = Append(calls,
                    [expected_service_name |-> expected_service_name,
                     expected_service_version |-> expected_service_version,
                     before |-> service_config,
                     after |-> after,
                     result |-> out])
           /\ service_config' = after
    /\ UNCHANGED <<pc, feed, service_name, page_token, requests, result>>

Next ==
    \/ CallFetchLatestRollout
    \/ FetchRolloutPage
    \/ FetchServiceJson
    \/ ValidateServiceConfig

Spec == Init /\ [][Next]_vars

ConfigNext == FetchServiceJson \/ ValidateServiceConfig

\* the config fetch and the validator alone
SpecConfig == Init /\ [][ConfigNext]_vars

(* ------------------- the rollout scan: what is claimed ----------------- *)

\* a winning record: status SUCCESS and a non-empty percentages map
Winning(rollout) ==
    /\ rollout.status = "SUCCESS"
    /\ rollout.trafficPercentStrategy.kind = "object"
    /\ rollout.trafficPercentStrategy.percentages.kind = "map"
    /\ rollout.trafficPercentStrategy.percentages.entries # {}

\* every page of the feed is a 200 response carrying a rollouts list
AllPagesServed(f) ==
    \A i \in 1..Len(f) :
        /\ f[i].transport = "ok"
        /\ f[i].status = 200
        /\ f[i].data.kind = "object"
        /\ f[i].data.rollouts.kind = "list"

Items(page) == page.data.rollouts.items

WinningIn(page) == {j \in 1..Len(Items(page)) : Winning(Items(page)[j])}

WinningPages(f) == {i \in 1..Len(f) : WinningIn(f[i]) # {}}

Least(S) == CHOOSE x \in S : \A y \in S : x <= y

FirstWinningPage(f) == Least(WinningPages(f))

\* the first winning record in scan order
FirstWinning(f) ==
    LET page == f[FirstWinningPage(f)] IN Items(page)[Least(WinningIn(page))]

RolloutDone == pc = "rollout_done"

\* C1: when every page is served with status 200 and some record of the feed
\* is winning, fetch_latest_rollout returns the percentages of the first
\* winning record in scan order.
C1_ReturnsFirstWinning ==
    (RolloutDone /\ AllPagesServed(feed) /\ WinningPages(feed) # {})
        => /\ result.kind = "return"
           /\ result.value =
                FirstWinning(feed).trafficPercentStrategy.percentages.entries

\* C2: when no page holds a winning record and the last page has no
\* continuation token (absent or null), fetch_latest_rollout ends, within
\* one request per page, in a FetchError of code 1.
C2_ExhaustedFeedFetchError ==
    (/\ RolloutDone
     /\ AllPagesServed(feed)
     /\ WinningPages(feed) = {}
     /\ feed[Len(feed)].data.nextPageToken \in {Missing, None})
        => /\ result.kind = "FetchError"
           /\ result.code = 1
           /\ Len(requests) <= Len(feed)

\* C3: a SUCCESS record with a null or empty strategy is never selected:
\* every value fetch_latest_rollout returns is a non-empty map.
C3_ReturnsNonEmptyMap ==
    (RolloutDone /\ result.kind = "return") => result.value # {}

\* C4: the first winning record on page k means exactly k requests, no
\* winning record in an n-page feed means exactly n requests; the first
\* request carries the empty token, each later one the nextPageToken of the
\* page before it.
C4_ExactlyThePagesNeeded ==
    (RolloutDone /\ AllPagesServed(feed))
        => /\ WinningPages(feed) # {}
                => Len(requests) = FirstWinningPage(feed)
           /\ WinningPages(feed) = {} => Len(requests) = Len(feed)
           /\ requests[1] = RolloutsUrl(service_name, "")
           /\ \A i \in 2..Len(requests) :
                requests[i] =
                    RolloutsUrl(service_name, feed[i - 1].data.nextPageToken)

(* --------------------- the validator: what is claimed ------------------ *)

Present(v) == v \notin {Missing, None, ""}

\* the six checks as the specification words them; check 5 asks only for
\* a control section that is present and non-null
SpecCheck(n, config, expected_name, expected_version) ==
    IF n = 1 THEN Present(config.name)
    ELSE IF n = 2 THEN config.name = expected_name
    ELSE IF n = 3 THEN Present(config.id)
    ELSE IF n = 4 THEN config.id = expected_version
    ELSE IF n = 5 THEN config.control.kind = "object"
    ELSE Present(config.control.environment)

\* the six checks as the code applies them; check 5 also refuses a control
\* section that is an empty mapping
CodeCheck(n, config, expected_name, expected_version) ==
    IF n = 5
    THEN /\ config.control.kind = "object"
         /\ \/ config.control.environment # Missing
            \/ config.control.provider # Missing
    ELSE SpecCheck(n, config, expected_name, expected_version)

\* the reason of check n, with the value it reports
CheckReason(n, config) ==
    IF n = 1 THEN <<"No service name in the service config", "">>
    ELSE IF n = 2
    THEN <<"Unexpected service name in service config: {}", config.name>>
    ELSE IF n = 3 THEN <<"No service config ID in the service config", "">>
    ELSE IF n = 4
    THEN <<"Unexpected service config ID in service config: {}", config.id>>
    ELSE IF n = 5 THEN <<"No control section in the service config", "">>
    ELSE <<"Missing control environment", "">>

Checks == 1..6

\* the call raised the validation error of check n
RaisedCheck(call, n) ==
    /\ call.result.kind = "FetchError"
    /\ call.result.code = 2
    /\ <<call.result.message.text, call.result.message.value>>
        = CheckReason(n, call.before)

SpecFailed(call) ==
    {n \in Checks : ~SpecCheck(n, call.before, call.expected_service_name,
                               call.expected_service_version)}

CodeFailed(call) ==
    {n \in Checks : ~CodeCheck(n, call.before, call.expected_service_name,
                               call.expected_service_version)}

Called == {calls[i] : i \in 1..Len(calls)}

\* C5 as claimed: every call raises the code-2 error of the first check it
\* fails, check 5 being "control present and non-null", and raises nothing
\* when all six pass.
C5_FirstFailedCheckAsClaimed ==
    \A call \in Called :
        IF SpecFailed(call) = {}
        THEN call.result.kind = "return"
        ELSE RaisedCheck(call, Least(SpecFailed(call)))

\* C5 as amended: every call raises the code-2 error of the first check it
\* fails, check 5 being "control present, non-null and not an empty
\* mapping", and raises nothing when all six pass.
C5_FirstFailedCheck ==
    \A call \in Called :
        IF CodeFailed(call) = {}
        THEN call.result.kind = "return"
        ELSE RaisedCheck(call, Least(CodeFailed(call)))

\* a call on a document whose control section is an empty mapping, name and
\* id as expected, ended with "No control section"
C5_Witness ==
    \E call \in Called :
        /\ call.before.control = ControlOf(Missing, Missing)
        /\ Least(CodeFailed(call)) = 5
        /\ RaisedCheck(call, 5)

Succeeded(call) == call.result.kind = "return"

\* C6: after a successful call the sandbox environment has become the
\* production one and every other environment is the input value.
C6_SandboxReplaced ==
    \A call \in Called :
        Succeeded(call) =>
            IF call.before.control.environment = SANDBOX_ENVIRONMENT
            THEN call.after.control.environment = PRODUCTION_ENVIRONMENT
            ELSE call.after.control.environment
                    = call.before.control.environment

\* a successful call on a sandbox document
C6_Witness ==
    \E call \in Called :
        /\ Succeeded(call)
        /\ call.before.control.environment = SANDBOX_ENVIRONMENT
        /\ call.after.control.environment = PRODUCTION_ENVIRONMENT

SameExpectations(c, d) ==
    /\ c.expected_service_name = d.expected_service_name
    /\ c.expected_service_version = d.expected_service_version

\* C7: a call that follows a successful call with the same expectations
\* succeeds and leaves the document as the first call left it.
C7_Idempotent ==
    \A i \in 1..(Len(calls) - 1) :
        (Succeeded(calls[i]) /\ SameExpectations(calls[i], calls[i + 1]))
            => /\ calls[i + 1].before = calls[i].after
               /\ Succeeded(calls[i + 1])
               /\ calls[i + 1].after = calls[i].after

\* two calls with the same expectations, the first of which rewrote the
\* sandbox environment
C7_Witness ==
    /\ Len(calls) >= 2
    /\ Succeeded(calls[1])
    /\ SameExpectations(calls[1], calls[2])
    /\ calls[1].before.control.environment = SANDBOX_ENVIRONMENT
    /\ calls[2].after = calls[1].after

\* C8: whatever the outcome, every field but control.environment keeps its
\* value and no key appears or disappears; a call that raises leaves the
\* whole document as it was.
C8_Frame ==
    \A call \in Called :
        /\ call.after.name = call.before.name
        /\ call.after.id = call.before.id
        /\ call.after.title = call.before.title
        /\ call.after.control.kind = call.before.control.kind
        /\ call.after.control.provider = call.before.control.provider
        /\ (call.after.control.environment = Missing)
            <=> (call.before.control.environment = Missing)
        /\ ~Succeeded(call) => call.after = call.before

\* a call that raised on a sandbox document carrying unknown keys, and left
\* it alone
C8_Witness ==
    \E call \in Called :
        /\ ~Succeeded(call)
        /\ call.before.control.environment = SANDBOX_ENVIRONMENT
        /\ call.before.control.provider # Missing
        /\ call.before.title # Missing
        /\ call.after = call.before

(* ------------------- failures of a fetch: what is claimed -------------- *)

CallDone == pc \in {"rollout_done", "json_done"}

\* the response to request i
Response(i) == feed[i]

NoAnswer(response) == response.transport = "error"

Non200(response) == response.transport = "ok" /\ response.status # 200

\* request i was the last one and the call ended in a FetchError of code 1
FailedAt(i) ==
    /\ i = Len(requests)
    /\ CallDone
    /\ result.kind = "FetchError"
    /\ result.code = 1

\* the error message carries the URL of request i, the status and the reason
CarriesRequest(i) ==
    /\ result.message.url = requests[i]
    /\ result.message.status = Response(i).status
    /\ result.message.reason = Response(i).reason

C10_OnlyFetchErrors ==
    /\ CallDone
        => /\ result.kind \in {"return", "FetchError"}
           /\ result.kind = "FetchError" => result.code = 1
    /\ \A call \in Called :
        /\ call.result.kind \in {"return", "FetchError"}
        /\ call.result.kind = "FetchError" => call.result.code = 2

====
